---- MODULE Spec2Model ----
(***************************************************************************)
(* Model of the tool-use orchestrator of Tripsy (src/orchestrator.py):      *)
(* AnthropicOrchestrator.register_tool, .chat, ._send and                   *)
(* ._execute_local_tool, with the Model Client (anthropic messages.create)  *)
(* and the capability functions as the environment.                         *)
(*                                                                         *)
(* Texts are sequences of string pieces, so that an f-string is the        *)
(* concatenation of its pieces and "contains the message" is decidable.    *)
(***************************************************************************)
EXTENDS Integers, Sequences, FiniteSets, TLC

VARIABLES
    optimize,     \* the interpreter runs with -O: assert statements are stripped
    tools,        \* self.tools: the advertised declaration list
    registry,     \* self._registry: name -> python_fn
    regLog,       \* history: the register_tool calls, their arguments and outcome
    prompt,       \* chat's parameter user_prompt
    pc,           \* position of the chat invocation
    messages,     \* chat's local transcript
    response,     \* chat's local: the response of the last _send
    i,            \* chat's for-loop position in response.content
    fn,           \* the capability function in flight
    calls,        \* number of Model Client calls made by the run
    cycles,       \* number of tool_use responses the Model Client has returned
    emitted,      \* number of content blocks the Model Client has returned
    sent,         \* history: the (messages, tools) given to each Model Client call
    received,     \* history: what each Model Client call returned or raised
    invoked,      \* history: the capability invocations, in order
    finished,     \* history: how each capability invocation ended, in order
    outcome,      \* how chat ended: the value returned or the exception raised
    other,        \* the locals and history of the other chat invocation on the
                  \* same orchestrator, which is not running now
    mail,         \* a call of fetch_emails: its arguments, locals and outcome
    video,        \* a call of extract_n_keyframes: its arguments, locals and outcome
    heap          \* the list objects of the process and the orchestrator
                  \* instances constructed over them

vars == <<optimize, tools, registry, regLog, prompt, pc, messages, response, i,
          fn, calls, cycles, emitted, sent, received, invoked, finished, outcome,
          other, mail, video, heap>>

\* the state of the orchestrator, which the capability functions do not touch
orch == <<optimize, tools, registry, regLog, prompt, pc, messages, response, i,
          fn, calls, cycles, emitted, sent, received, invoked, finished, outcome,
          other>>

----------------------------------------------------------------------------
(* Bounds of the model *)

\* tool_use responses the Model Client returns in one run, at most
MaxCycles == 2

\* register_tool calls on the instances of SpecInst, at most
MaxInstRegs == 2
\* content blocks the Model Client returns in one run, at most
MaxBlocks == 2
\* register_tool calls before the chat run, at most
MaxSetup == 1
\* in the specification of the registrations: register_tool calls, at most
MaxRegs == 2
\* in the specification of the registrations: content blocks per run, at most
MaxRegBlocks == 1
\* in the specification with fairness: content blocks per run, at most
MaxLiveBlocks == 1
\* in the specification with registrations during the run: register_tool calls,
\* content blocks per run and tool_use responses per run, at most
MaxDynRegs == 2
MaxDynBlocks == 2
MaxDynCycles == 1
\* in the specification of two chat invocations: register_tool calls, and
\* content blocks and tool_use responses of both invocations together, at most
MaxTwoRegs == 1
MaxTwoBlocks == 2
MaxTwoCycles == 2
\* in the specification of chat called twice: content blocks per run, at most
MaxTwiceBlocks == 2
\* messages the Gmail query of fetch_emails matches, at most
MaxMails == 2
\* the n_frames argument of extract_n_keyframes and the frames of the video,
\* at most
MaxNFrames == 4
MaxFrameCount == 3
\* in the specification of requests with arguments: register_tool calls,
\* content blocks per run and tool_use responses per run, at most
MaxArgsRegs == 1
MaxArgsBlocks == 2
MaxArgsCycles == 2

----------------------------------------------------------------------------
(* Values *)

None == "None"

\* the prompt given to chat
Prompts == {<<"find my hotel booking">>}

\* the prompts of two conversations held on one orchestrator
TwoPrompts == {<<"find my hotel booking">>, <<"when is my flight">>}

\* tool names the model may ask for
ToolNames == {"fetch_emails", "get_flight_status"}

\* argument mappings of a request (block.input)
Inputs == {[start_date |-> "2025/03/05"]}

\* declarations handed to register_tool: two of the same name, one without a name
EmailDef1 == [name |-> "fetch_emails", description |-> "first"]
EmailDef2 == [name |-> "fetch_emails", description |-> "second"]
Nameless == [description |-> "nameless"]

\* callables and a non-callable handed to register_tool
Callables == {"f1", "f2"}
NotCallable == "a string"

\* the register_tool calls the caller may make: (tool_def, python_fn)
RegisterCalls ==
    { <<EmailDef1, "f1">>, <<EmailDef2, "f2">>, <<EmailDef1, NotCallable>>,
      <<Nameless, "f1">>, <<Nameless, NotCallable>> }

\* the register_tool calls made while chat runs, by a capability function or
\* by another thread
DynRegisterCalls == { <<EmailDef1, "f1">>, <<EmailDef2, "f2">> }

\* what a capability function may return
ToolValues == {[t |-> "list", v |-> <<"email 1", "email 2">>]}

\* exceptions (subclasses of Exception) a capability function may raise
ToolExceptions == {[cls |-> "ValueError", msg |-> <<"Could not open video file">>]}

\* exceptions the Model Client may raise
ClientExceptions == {[cls |-> "APIConnectionError", msg |-> <<"Connection error.">>]}

StopReasons == {"tool_use", "end_turn", "max_tokens"}

\* callable(python_fn)
Callable(f) == f \in Callables

\* repr(e) of a str without quotes in it
Repr(e) == <<"'", e, "'">>

\* ", ".join(repr(e) for e in xs)
RECURSIVE ReprItems(_)
ReprItems(xs) ==
    IF xs = <<>> THEN <<>>
    ELSE IF Len(xs) = 1 THEN Repr(xs[1])
    ELSE Repr(xs[1]) \o <<", ">> \o ReprItems(Tail(xs))

\* str(x) of a str built by the orchestrator (itself) or of a list of strs a
\* tool returned (the repr of its elements between brackets)
Str(x) ==
    CASE x.t = "str" -> x.v
      [] x.t = "list" -> <<"[">> \o ReprItems(x.v) \o <<"]">>

\* str(exc) of an exception constructed with one message argument
ExcStr(exc) == exc.msg

NoExc == [cls |-> None, msg |-> <<>>]
NoResponse == [stop_reason |-> None, content |-> <<>>]
NoFn == [id |-> <<0, 0>>, name |-> None, fn |-> None, input |-> [none |-> TRUE]]
NoPrompt == <<>>

\* the locals and history of a chat invocation that has not begun
Fresh ==
    [prompt |-> NoPrompt, pc |-> "idle", messages |-> <<>>, response |-> NoResponse,
     i |-> 0, fn |-> NoFn, calls |-> 0, cycles |-> 0, emitted |-> 0,
     sent |-> <<>>, received |-> <<>>, invoked |-> <<>>, finished |-> <<>>,
     outcome |-> [kind |-> "none"]]

\* tool_def["name"] on a dict without that key
KeyError(k) == [cls |-> "KeyError", msg |-> <<"'", k, "'">>]

\* a failed assert statement with its message
AssertionError(m) == [cls |-> "AssertionError", msg |-> <<m>>]

\* fn(**kwargs) on an object that is not callable
TypeError(f) == [cls |-> "TypeError", msg |-> <<"'", f, "' object is not callable">>]

----------------------------------------------------------------------------
(* fetch_emails (src/tools/email_tool/tool.py) *)

\* str.lower() on the characters of the model
LowerChar(c) == CASE c = "A" -> "a" [] c = "B" -> "b" [] OTHER -> c
Lower(str) == [k \in 1..Len(str) |-> LowerChar(str[k])]

\* part in text, for strs as sequences of characters
In(part, text) ==
    \E k \in 0..(Len(text) - Len(part)) : SubSeq(text, k + 1, k + Len(part)) = part

\* the messages the query may match: the Subject header (when there is one) and
\* the decoded body
Mails ==
    { [has_subject |-> TRUE, subject |-> <<"a">>, body |-> <<"B">>],
      [has_subject |-> TRUE, subject |-> <<"A">>, body |-> <<"c">>],
      [has_subject |-> FALSE, subject |-> <<>>, body |-> <<"a">>] }

Inboxes == UNION {[1..n -> Mails] : n \in 0..MaxMails}

\* the content_keywords argument: None (the default), [] or a list of strs
KeywordArgs ==
    { [none |-> TRUE, list |-> <<>>],
      [none |-> FALSE, list |-> <<>>],
      [none |-> FALSE, list |-> << <<"A">> >>],
      [none |-> FALSE, list |-> << <<"c">>, <<"a", "b">> >>] }

\* what authenticate_gmail_api and the Gmail API calls may raise
MailExceptions ==
    { [cls |-> "HttpError", msg |-> <<"HttpError 403">>],
      [cls |-> "FileNotFoundError", msg |-> <<"credentials.json">>],
      [cls |-> "RefreshError", msg |-> <<"invalid_grant">>] }

NoMail ==
    [pc |-> "idle", content_keywords |-> [none |-> TRUE, list |-> <<>>],
     creds |-> FALSE, messages |-> <<>>, k |-> 0, fetched_emails |-> <<>>, exc |-> NoExc]

\* if content_keywords: neither None nor empty
Truthy(kw) == ~kw.none /\ kw.list # <<>>

\* the variant that lowercases the subject as well as the body
ContentMatchLowerSubject(kw, m) ==
    \E j \in 1..Len(kw.list) :
        In(Lower(kw.list[j]), Lower(m.subject) \o Lower(m.body))

\* the content_match of one message: any keyword.lower() in
\* email_data['subject'] + body.lower()
ContentMatch(kw, m) ==
    \E j \in 1..Len(kw.list) : In(Lower(kw.list[j]), m.subject \o Lower(m.body))

\* fetch_emails(content_keywords=kw) is called
FetchEmails(kw) ==
    /\ mail.pc = "idle"
    /\ mail' = [mail EXCEPT !.pc = "auth", !.content_keywords = kw]
    /\ UNCHANGED <<orch, heap, video>>

\* authenticate_gmail_api() returns credentials
AuthOk ==
    /\ mail.pc = "auth"
    /\ mail' = [mail EXCEPT !.pc = "list", !.creds = TRUE]
    /\ UNCHANGED <<orch, heap, video>>

\* authenticate_gmail_api() returns nothing: raise Exception("Authentication failed.")
AuthFails ==
    /\ mail.pc = "auth"
    /\ mail' = [mail EXCEPT !.pc = "raised",
                            !.exc = [cls |-> "Exception",
                                     msg |-> <<"Authentication failed.">>]]
    /\ UNCHANGED <<orch, heap, video>>

\* authenticate_gmail_api() raises, outside the try: the exception leaves
AuthRaises(e) ==
    /\ mail.pc = "auth"
    /\ mail' = [mail EXCEPT !.pc = "raised", !.exc = e]
    /\ UNCHANGED <<orch, heap, video>>

\* build() or messages().list().execute() raises: every except clause raises
\* the exception again
ListRaises(e) ==
    /\ mail.pc = "list"
    /\ mail' = [mail EXCEPT !.pc = "raised", !.exc = e]
    /\ UNCHANGED <<orch, heap, video>>

\* messages().list().execute() returns the messages the query matches
ListReturns(inbox) ==
    /\ mail.pc = "list"
    /\ mail' = [mail EXCEPT !.pc = "loop", !.messages = inbox, !.k = 1]
    /\ UNCHANGED <<orch, heap, video>>

\* messages().get().execute() raises for a listed message
GetRaises(e) ==
    /\ mail.pc = "loop"
    /\ mail.k <= Len(mail.messages)
    /\ mail' = [mail EXCEPT !.pc = "raised", !.exc = e]
    /\ UNCHANGED <<orch, heap, video>>

\* one iteration of the for loop over the listed messages: with keywords given,
\* None + str raises TypeError for a message without Subject header, and the
\* message is appended when it matches
ForMessage ==
    /\ mail.pc = "loop"
    /\ mail.k <= Len(mail.messages)
    /\ LET m == mail.messages[mail.k] IN
        IF Truthy(mail.content_keywords) /\ ~m.has_subject
        THEN mail' = [mail EXCEPT !.pc = "raised",
                        !.exc = [cls |-> "TypeError",
                                 msg |-> <<"unsupported operand type(s) for +">>]]
        ELSE IF Truthy(mail.content_keywords) /\ ContentMatch(mail.content_keywords, m)
        THEN mail' = [mail EXCEPT !.k = @ + 1,
                                  !.fetched_emails = Append(@, mail.k)]
        ELSE mail' = [mail EXCEPT !.k = @ + 1]
    /\ UNCHANGED <<orch, heap, video>>

\* return fetched_emails
FetchReturn ==
    /\ mail.pc = "loop"
    /\ mail.k > Len(mail.messages)
    /\ mail' = [mail EXCEPT !.pc = "returned"]
    /\ UNCHANGED <<orch, heap, video>>

----------------------------------------------------------------------------
(* extract_n_keyframes (src/tools/media_tool/tool.py) *)

NoVideo ==
    [pc |-> "idle", n_frames |-> 0, frame_count |-> 0, frame_indices |-> <<>>,
     j |-> 0, idx |-> 0, saved_frames |-> <<>>, exc |-> NoExc]

\* np.linspace(0, frame_count - 1, n_frames, dtype=int): n_frames evenly spaced
\* values from 0 to frame_count - 1, truncated
Linspace(frame_count, n_frames) ==
    [j \in 1..n_frames |->
        IF n_frames = 1 THEN 0 ELSE ((j - 1) * (frame_count - 1)) \div (n_frames - 1)]

\* extract_n_keyframes(video_path, output_dir, n_frames) is called
ExtractKeyframes(n_frames) ==
    /\ video.pc = "idle"
    /\ video' = [video EXCEPT !.pc = "open", !.n_frames = n_frames]
    /\ UNCHANGED <<orch, heap, mail>>

\* cap.isOpened() is false
OpenFails ==
    /\ video.pc = "open"
    /\ video' = [video EXCEPT !.pc = "raised",
                    !.exc = [cls |-> "ValueError",
                             msg |-> <<"Could not open video file: ", "video_path">>]]
    /\ UNCHANGED <<orch, heap, mail>>

\* the video opens and reports frame_count frames
Opened(frame_count) ==
    /\ video.pc = "open"
    /\ IF frame_count = 0
       THEN video' = [video EXCEPT !.pc = "raised",
                        !.exc = [cls |-> "ValueError",
                                 msg |-> <<"Video has no frames!">>]]
       ELSE video' = [video EXCEPT !.pc = "loop", !.frame_count = frame_count,
                        !.frame_indices = Linspace(frame_count, video.n_frames),
                        !.j = 1]
    /\ UNCHANGED <<orch, heap, mail>>

\* cap.read() returns the frame: it is written as keyframe_{idx}.jpg
ReadOk ==
    /\ video.pc = "loop"
    /\ video.j <= Len(video.frame_indices)
    /\ video' = [video EXCEPT !.saved_frames = Append(@, video.idx),
                              !.idx = @ + 1, !.j = @ + 1]
    /\ UNCHANGED <<orch, heap, mail>>

\* cap.read() returns ret false: continue
ReadFails ==
    /\ video.pc = "loop"
    /\ video.j <= Len(video.frame_indices)
    /\ video' = [video EXCEPT !.j = @ + 1]
    /\ UNCHANGED <<orch, heap, mail>>

\* return saved_frames
KeyframesReturn ==
    /\ video.pc = "loop"
    /\ video.j > Len(video.frame_indices)
    /\ video' = [video EXCEPT !.pc = "returned"]
    /\ UNCHANGED <<orch, heap, mail>>

----------------------------------------------------------------------------
(* register_tool *)

\* the bug of keeping the first function registered under a name
register_tool_first_wins(ts, reg, tool_def, python_fn) ==
    IF "name" \notin DOMAIN tool_def
    THEN [tools |-> ts, registry |-> reg, exc |-> KeyError("name")]
    ELSE IF ~optimize /\ ~Callable(python_fn)
    THEN [tools |-> ts, registry |-> reg,
          exc |-> AssertionError("python_fn must be a callable")]
    ELSE [tools |-> Append(ts, tool_def),
          registry |-> reg @@ (tool_def.name :> python_fn),
          exc |-> NoExc]

\* the bug of appending the declaration before the assert
register_tool_append_first(ts, reg, tool_def, python_fn) ==
    IF "name" \notin DOMAIN tool_def
    THEN [tools |-> ts, registry |-> reg, exc |-> KeyError("name")]
    ELSE IF ~optimize /\ ~Callable(python_fn)
    THEN [tools |-> Append(ts, tool_def), registry |-> reg,
          exc |-> AssertionError("python_fn must be a callable")]
    ELSE [tools |-> Append(ts, tool_def),
          registry |-> (tool_def.name :> python_fn) @@ reg,
          exc |-> NoExc]

\* the variant that asserts callable(python_fn) before reading the name
register_tool_assert_first(ts, reg, tool_def, python_fn) ==
    IF ~optimize /\ ~Callable(python_fn)
    THEN [tools |-> ts, registry |-> reg,
          exc |-> AssertionError("python_fn must be a callable")]
    ELSE IF "name" \notin DOMAIN tool_def
    THEN [tools |-> ts, registry |-> reg, exc |-> KeyError("name")]
    ELSE [tools |-> Append(ts, tool_def),
          registry |-> (tool_def.name :> python_fn) @@ reg,
          exc |-> NoExc]

\* register_tool(tool_def, python_fn) on the instance state (ts, reg): the state
\* after the call and the exception it raised, in the order of the statements
register_tool(ts, reg, tool_def, python_fn) ==
    IF "name" \notin DOMAIN tool_def
    THEN [tools |-> ts, registry |-> reg, exc |-> KeyError("name")]
    ELSE IF ~optimize /\ ~Callable(python_fn)
    THEN [tools |-> ts, registry |-> reg,
          exc |-> AssertionError("python_fn must be a callable")]
    ELSE [tools |-> Append(ts, tool_def),
          registry |-> (tool_def.name :> python_fn) @@ reg,
          exc |-> NoExc]

RegisterTool(tool_def, python_fn) ==
    /\ LET r == register_tool(tools, registry, tool_def, python_fn) IN
        /\ tools' = r.tools
        /\ registry' = r.registry
        /\ regLog' = Append(regLog, [tool_def |-> tool_def, python_fn |-> python_fn,
                                     exc |-> r.exc])
    /\ UNCHANGED <<optimize, heap, mail, video, other, prompt, pc, messages, response, i, fn, calls, cycles,
                   emitted, sent, received, invoked, finished, outcome>>

----------------------------------------------------------------------------
(* several instances: __init__ and register_tool over list objects *)

\* the orchestrators the caller constructs
Instances == {"a", "b"}

\* the list objects the caller holds before it constructs an orchestrator: an
\* empty list and a list of one declaration
CallerLists == << <<>>, <<EmailDef1>> >>

\* the tools argument of the constructor: omitted (None), or a reference to a
\* list object of the caller
ToolsArgs == {[none |-> TRUE, ref |-> 0]} \cup
             {[none |-> FALSE, ref |-> r] : r \in 1..Len(CallerLists)}

NoInstance == [made |-> FALSE, tools |-> 0, registry |-> [n \in {} |-> None]]

\* no orchestrator is constructed; the list objects are the caller's
NoHeap == [lists |-> CallerLists, obj |-> [x \in Instances |-> NoInstance], log |-> <<>>]

\* x = AnthropicOrchestrator(tools=arg): `tools or []` is the argument's own
\* list object when the argument is a non-empty list, and a new empty list when
\* it is None or an empty list; the registry is a new dict
Construct(x, arg) ==
    /\ ~heap.obj[x].made
    /\ LET truthy == IF arg.none THEN FALSE ELSE heap.lists[arg.ref] # <<>>
           lists == IF truthy THEN heap.lists ELSE Append(heap.lists, <<>>)
           ref == IF truthy THEN arg.ref ELSE Len(heap.lists) + 1
       IN  heap' = [heap EXCEPT !.lists = lists,
                                !.obj[x] = [made |-> TRUE, tools |-> ref,
                                            registry |-> [n \in {} |-> None]]]
    /\ UNCHANGED <<orch, mail, video>>

\* x.register_tool(tool_def, python_fn): self.tools.append changes the list
\* object self.tools refers to
RegisterToolOn(x, tool_def, python_fn) ==
    /\ heap.obj[x].made
    /\ LET self == heap.obj[x]
           r == register_tool(heap.lists[self.tools], self.registry, tool_def, python_fn)
       IN  heap' = [heap EXCEPT !.lists[self.tools] = r.tools,
                                !.obj[x].registry = r.registry,
                                !.log = Append(@, [self |-> x, tool_def |-> tool_def,
                                                   python_fn |-> python_fn,
                                                   exc |-> r.exc])]
    /\ UNCHANGED <<orch, mail, video>>

----------------------------------------------------------------------------
(* chat *)

\* the bug of resolving a name to the function it was first registered with
RegistryGetFirst(reg, name) ==
    LET ks == {k \in 1..Len(regLog) :
                 /\ regLog[k].exc = NoExc
                 /\ regLog[k].tool_def.name = name}
    IN  IF ks = {} THEN None
        ELSE regLog[CHOOSE k \in ks : \A j \in ks : k <= j].python_fn

\* self._registry.get(name)
RegistryGet(reg, name) == IF name \in DOMAIN reg THEN reg[name] ELSE None

\* the bug of not flagging the missing tool as an error
NotFoundUnflagged(name) ==
    [result |-> [t |-> "str",
                 v |-> <<"No local implementation found for tool '", name, "'">>],
     error_flag |-> FALSE]

\* _execute_local_tool when the name is not found
NotFound(name) ==
    [result |-> [t |-> "str",
                 v |-> <<"No local implementation found for tool '", name, "'">>],
     error_flag |-> TRUE]

\* the bug of handing the value on without coercing it to text
SucceededRaw(value) == [result |-> [t |-> "str", v |-> value.v], error_flag |-> FALSE]

\* _execute_local_tool when fn(**kwargs) returned value
Succeeded(value) == [result |-> value, error_flag |-> FALSE]

\* the bug of reporting the failure without its message
FailedWithoutMessage(exc) ==
    [result |-> [t |-> "str", v |-> <<"Tool execution failed">>],
     error_flag |-> TRUE]

\* _execute_local_tool when fn(**kwargs) raised exc
Failed(exc) ==
    [result |-> [t |-> "str", v |-> <<"Tool execution failed: ">> \o ExcStr(exc)],
     error_flag |-> TRUE]

\* the tool_result block built for one request
ToolResult(tool_use_id, r) ==
    IF r.error_flag
    THEN [type |-> "tool_result", tool_use_id |-> tool_use_id,
          content |-> Str(r.result), is_error |-> TRUE]
    ELSE [type |-> "tool_result", tool_use_id |-> tool_use_id,
          content |-> Str(r.result)]

\* the bug of appending the outcome before the response it answers
ExtensionOutcomeFirst(content, tool_use_id, r) ==
    << [role |-> "user", content |-> [list |-> <<ToolResult(tool_use_id, r)>>]],
       [role |-> "assistant", content |-> [list |-> content]] >>

\* the bug of keeping only the tool_use blocks in the assistant turn
ExtensionOfRequestsOnly(content, tool_use_id, r) ==
    << [role |-> "assistant",
        content |-> [list |-> SelectSeq(content, LAMBDA b : b.type = "tool_use")]],
       [role |-> "user", content |-> [list |-> <<ToolResult(tool_use_id, r)>>]] >>

\* the bug of reporting no outcome for a request that failed
ExtensionWithoutErrors(content, tool_use_id, r) ==
    IF r.error_flag
    THEN << [role |-> "assistant", content |-> [list |-> content]] >>
    ELSE << [role |-> "assistant", content |-> [list |-> content]],
            [role |-> "user", content |-> [list |-> <<ToolResult(tool_use_id, r)>>]] >>

\* the list messages.extend() is given after one request was executed
Extension(content, tool_use_id, r) ==
    << [role |-> "assistant", content |-> [list |-> content]],
       [role |-> "user", content |-> [list |-> <<ToolResult(tool_use_id, r)>>]] >>

\* the bug of keeping the transcript on the instance (self.messages, set anew
\* by every chat call): the turns go to the list of the invocation that began
\* last, which is the other one's when that one has begun
ExtendShared(msgs, turns) ==
    IF other.pc # "idle" THEN other.messages \o turns ELSE msgs \o turns

\* the bug of keeping only the prompt and the latest exchange
ExtendTrimmed(msgs, turns) == <<msgs[1]>> \o turns

\* messages.extend(turns)
Extend(msgs, turns) == msgs \o turns

\* the bug of walking response.content backwards
BlockAtReversed(content, k) == content[Len(content) + 1 - k]

\* the block the for loop over response.content visits in its k-th iteration
BlockAt(content, k) == content[k]

\* the bug of advertising the declarations of the first call all along
SendArgsSnapshot(msgs, ts) ==
    [messages |-> msgs, tools |-> IF sent = <<>> THEN ts ELSE sent[1].tools]

\* _send(messages): the arguments of client.messages.create
SendArgs(msgs, ts) == [messages |-> msgs, tools |-> ts]

\* the bug of keeping the conversation on the instance and resuming it
InitialMessagesResumed(user_prompt) ==
    other.messages \o <<[role |-> "user", content |-> [str |-> user_prompt]]>>

\* the first transcript of chat(user_prompt)
InitialMessages(user_prompt) == <<[role |-> "user", content |-> [str |-> user_prompt]]>>

\* chat(user_prompt) up to its first _send
Chat(user_prompt) ==
    /\ pc = "idle"
    /\ prompt' = user_prompt
    /\ messages' = InitialMessages(user_prompt)
    /\ sent' = Append(sent, SendArgs(messages', tools))
    /\ calls' = calls + 1
    /\ pc' = "wait"
    /\ UNCHANGED <<optimize, heap, mail, video, other, tools, registry, regLog, response, i, fn, cycles,
                   emitted, received, invoked, finished, outcome>>

\* what the Model Client may put in a response: the blocks without their ids
BlockShapes ==
    {[type |-> "text"]} \cup
    {[type |-> "tool_use", name |-> n, input |-> a] : n \in ToolNames, a \in Inputs}

\* the contents of at most n blocks
ContentShapes(n) == UNION {[1..k -> BlockShapes] : k \in 0..n}

\* argument mappings that differ from one request to the next
TwoInputs == {[start_date |-> "2025/03/05"], [start_date |-> "2025/03/09"]}

\* the contents of at most n blocks that are text or a request for
\* fetch_emails with either argument mapping
ArgsShapes(n) ==
    UNION {[1..k -> {[type |-> "text"]} \cup
                    {[type |-> "tool_use", name |-> "fetch_emails", input |-> a] :
                        a \in TwoInputs}] : k \in 0..n}

\* block j of the response to call number c; invocation ids are never reused
MkBlock(shape, c, j) ==
    IF shape.type = "text"
    THEN [type |-> "text", text |-> <<"Let me check.">>]
    ELSE [type |-> "tool_use", id |-> <<c, j>>, name |-> shape.name,
          input |-> shape.input]

MkResponse(stop, shapes, c) ==
    [stop_reason |-> stop,
     content |-> [j \in 1..Len(shapes) |-> MkBlock(shapes[j], c, j)]]

\* the bug of returning every response, tool_use or not
WantsToolsNever(resp) == FALSE

\* the bug of looping on every response that is not end_turn
WantsToolsUnlessEndTurn(resp) == resp.stop_reason # "end_turn"

\* response.stop_reason == "tool_use"
WantsTools(resp) == resp.stop_reason = "tool_use"

\* the bug of dispatching a tool once per response, however often requested
SkippedIfRepeated(block) ==
    IF block.type # "tool_use" THEN TRUE
    ELSE \E k \in 1..Len(invoked) :
            invoked[k].name = block.name /\ invoked[k].id[1] = block.id[1]

\* block.type != "tool_use": the block is skipped
Skipped(block) == block.type # "tool_use"

\* return response
Returned(resp) == [kind |-> "returned", value |-> resp]

\* the variant that wraps what the Model Client raised in an error of its own
RaisedAsBoundaryError(exc) ==
    [kind |-> "raised", exc |-> [cls |-> "ModelBoundaryError", msg |-> exc.msg]]

\* an exception leaving chat
Raised(exc) == [kind |-> "raised", exc |-> exc]

\* client.messages.create returns: chat returns it or enters the for loop
ModelReturn(stop, shapes) ==
    /\ pc = "wait"
    /\ emitted' = emitted + Len(shapes)
    /\ response' = MkResponse(stop, shapes, calls)
    /\ received' = Append(received, [kind |-> "returned", value |-> response'])
    /\ cycles' = IF stop = "tool_use" THEN cycles + 1 ELSE cycles
    /\ IF WantsTools(response')
       THEN /\ pc' = "loop"
            /\ i' = 1
            /\ UNCHANGED outcome
       ELSE /\ pc' = "done"
            /\ outcome' = Returned(response')
            /\ UNCHANGED i
    /\ UNCHANGED <<optimize, heap, mail, video, other, prompt, tools, registry, regLog, messages, fn, calls,
                   sent, invoked, finished>>

\* client.messages.create raises: nothing in _send or chat catches it
ModelRaise(exc) ==
    /\ pc = "wait"
    /\ pc' = "failed"
    /\ outcome' = Raised(exc)
    /\ received' = Append(received, [kind |-> "raised", exc |-> exc])
    /\ UNCHANGED <<optimize, heap, mail, video, other, prompt, tools, registry, regLog, messages, response, i,
                   fn, calls, cycles, emitted, sent, invoked, finished>>

\* for block in response.content: a block that is not a tool_use block
LoopSkip ==
    /\ pc = "loop"
    /\ i <= Len(response.content)
    /\ Skipped(BlockAt(response.content, i))
    /\ i' = i + 1
    /\ UNCHANGED <<optimize, heap, mail, video, other, prompt, tools, registry, regLog, pc, messages, response,
                   fn, calls, cycles, emitted, sent, received, invoked,
                   finished, outcome>>

\* a tool_use block whose name the registry does not hold (or holds None for)
LoopNotFound ==
    /\ pc = "loop"
    /\ i <= Len(response.content)
    /\ LET block == BlockAt(response.content, i) IN
        /\ ~Skipped(block)
        /\ RegistryGet(registry, block.name) = None
        /\ messages' = Extend(messages,
                Extension(response.content, block.id, NotFound(block.name)))
    /\ i' = i + 1
    /\ UNCHANGED <<optimize, heap, mail, video, other, prompt, tools, registry, regLog, pc, response, fn, calls,
                   cycles, emitted, sent, received, invoked, finished, outcome>>

\* a tool_use block bound to an object that is not callable: fn(**kwargs) raises
\* TypeError inside the try
LoopNotCallable ==
    /\ pc = "loop"
    /\ i <= Len(response.content)
    /\ LET block == BlockAt(response.content, i)
           f == RegistryGet(registry, block.name) IN
        /\ ~Skipped(block)
        /\ f # None
        /\ ~Callable(f)
        /\ messages' = Extend(messages,
                Extension(response.content, block.id, Failed(TypeError(f))))
    /\ i' = i + 1
    /\ UNCHANGED <<optimize, heap, mail, video, other, prompt, tools, registry, regLog, pc, response, fn, calls,
                   cycles, emitted, sent, received, invoked, finished, outcome>>

\* the bug of starting the capability function and going on to the next block
\* without waiting for it
LoopInvokeNoWait ==
    /\ pc = "loop"
    /\ i <= Len(response.content)
    /\ LET block == BlockAt(response.content, i)
           f == RegistryGet(registry, block.name) IN
        /\ ~Skipped(block)
        /\ Callable(f)
        /\ fn' = [id |-> block.id, name |-> block.name, fn |-> f,
                  input |-> block.input]
        /\ invoked' = Append(invoked, fn')
    /\ i' = i + 1
    /\ UNCHANGED <<optimize, heap, mail, video, other, prompt, tools, registry, regLog,
                   pc, messages, response, calls, cycles, emitted, sent, received,
                   finished, outcome>>

\* a tool_use block bound to a callable: fn(**kwargs) is called
LoopInvoke ==
    /\ pc = "loop"
    /\ i <= Len(response.content)
    /\ LET block == BlockAt(response.content, i)
           f == RegistryGet(registry, block.name) IN
        /\ ~Skipped(block)
        /\ Callable(f)
        /\ fn' = [id |-> block.id, name |-> block.name, fn |-> f,
                  input |-> block.input]
        /\ invoked' = Append(invoked, fn')
    /\ pc' = "tool"
    /\ UNCHANGED <<optimize, heap, mail, video, other, prompt, tools, registry, regLog, messages, response, i,
                   calls, cycles, emitted, sent, received, finished, outcome>>

\* fn(**kwargs) returns value
ToolReturn(value) ==
    /\ pc = "tool"
    /\ messages' = Extend(messages,
                           Extension(response.content, fn.id, Succeeded(value)))
    /\ finished' = Append(finished, [id |-> fn.id, kind |-> "returned",
                                     value |-> value])
    /\ i' = i + 1
    /\ pc' = "loop"
    /\ fn' = NoFn
    /\ UNCHANGED <<optimize, heap, mail, video, other, prompt, tools, registry, regLog, response, calls, cycles,
                   emitted, sent, received, invoked, outcome>>

\* fn(**kwargs) raises exc, an Exception
ToolRaise(exc) ==
    /\ pc = "tool"
    /\ messages' = Extend(messages, Extension(response.content, fn.id, Failed(exc)))
    /\ finished' = Append(finished, [id |-> fn.id, kind |-> "raised", exc |-> exc])
    /\ i' = i + 1
    /\ pc' = "loop"
    /\ fn' = NoFn
    /\ UNCHANGED <<optimize, heap, mail, video, other, prompt, tools, registry, regLog, response, calls, cycles,
                   emitted, sent, received, invoked, outcome>>

\* the for loop is over: continue, and the while loop calls _send again
LoopEnd ==
    /\ pc = "loop"
    /\ i > Len(response.content)
    /\ sent' = Append(sent, SendArgs(messages, tools))
    /\ calls' = calls + 1
    /\ pc' = "wait"
    /\ UNCHANGED <<optimize, heap, mail, video, other, prompt, tools, registry, regLog, messages, response, i,
                   fn, cycles, emitted, received, invoked, finished, outcome>>

\* the locals and history of the chat invocation that is running
Locals ==
    [prompt |-> prompt, pc |-> pc, messages |-> messages, response |-> response,
     i |-> i, fn |-> fn, calls |-> calls, cycles |-> cycles, emitted |-> emitted,
     sent |-> sent, received |-> received, invoked |-> invoked,
     finished |-> finished, outcome |-> outcome]

\* the thread of the other chat invocation on this orchestrator is scheduled,
\* or the caller, after one chat call, makes another: every invocation has its
\* own user_prompt, messages, response and loop position (they are locals of
\* chat), and tools and the registry belong to the instance
Switch ==
    /\ other' = Locals
    /\ prompt' = other.prompt
    /\ pc' = other.pc
    /\ messages' = other.messages
    /\ response' = other.response
    /\ i' = other.i
    /\ fn' = other.fn
    /\ calls' = other.calls
    /\ cycles' = other.cycles
    /\ emitted' = other.emitted
    /\ sent' = other.sent
    /\ received' = other.received
    /\ invoked' = other.invoked
    /\ finished' = other.finished
    /\ outcome' = other.outcome
    /\ UNCHANGED <<optimize, heap, mail, video, tools, registry, regLog>>

----------------------------------------------------------------------------
(* The specification *)


\* AnthropicOrchestrator(): no tools given, an empty registry, no chat yet
Init ==
    /\ optimize \in BOOLEAN
    /\ tools = <<>>
    /\ registry = [n \in {} |-> None]
    /\ regLog = <<>>
    /\ pc = "idle"
    /\ messages = <<>>
    /\ response = NoResponse
    /\ i = 0
    /\ fn = NoFn
    /\ calls = 0
    /\ cycles = 0
    /\ emitted = 0
    /\ sent = <<>>
    /\ received = <<>>
    /\ invoked = <<>>
    /\ finished = <<>>
    /\ outcome = [kind |-> "none"]
    /\ prompt = NoPrompt
    /\ other = Fresh
    /\ mail = NoMail
    /\ video = NoVideo
    /\ heap = NoHeap

\* the caller registers tools before it calls chat (at most regs calls), and
\* the Model Client returns at most MaxCycles tool_use responses and at most
\* blocks content blocks in a run
Bounded(regs, blocks) ==
    \/ \E c \in RegisterCalls :
          /\ pc = "idle"
          /\ Len(regLog) < regs
          /\ RegisterTool(c[1], c[2])
    \/ \E p \in Prompts : Chat(p)
    \/ \E stop \in StopReasons, shapes \in ContentShapes(blocks - emitted) :
          /\ stop = "tool_use" => cycles < MaxCycles
          /\ ModelReturn(stop, shapes)
    \/ \E e \in ClientExceptions : ModelRaise(e)
    \/ LoopSkip
    \/ LoopNotFound
    \/ LoopNotCallable
    \/ LoopInvoke
    \/ \E v \in ToolValues : ToolReturn(v)
    \/ \E e \in ToolExceptions : ToolRaise(e)
    \/ LoopEnd

Next == Bounded(MaxSetup, MaxBlocks)

Spec == Init /\ [][Next]_vars

\* the specification of the registrations: more register_tool calls, shorter runs
NextReg == Bounded(MaxRegs, MaxRegBlocks)

SpecReg == Init /\ [][NextReg]_vars

\* register_tool is called at any time before the run has ended: before chat,
\* by a capability function while it runs, or by another thread; the functions
\* registered are callable, so that no dispatch meets an object that is not
NextDyn ==
    \/ \E c \in DynRegisterCalls :
          /\ pc \notin {"done", "failed"}
          /\ Len(regLog) < MaxDynRegs
          /\ RegisterTool(c[1], c[2])
    \/ \E p \in Prompts : Chat(p)
    \/ \E stop \in StopReasons, shapes \in ContentShapes(MaxDynBlocks - emitted) :
          /\ stop = "tool_use" => cycles < MaxDynCycles
          /\ ModelReturn(stop, shapes)
    \/ \E e \in ClientExceptions : ModelRaise(e)
    \/ LoopSkip
    \/ LoopNotFound
    \/ LoopInvoke
    \/ \E v \in ToolValues : ToolReturn(v)
    \/ \E e \in ToolExceptions : ToolRaise(e)
    \/ LoopEnd

SpecDyn == Init /\ [][NextDyn]_vars

\* two chat invocations on one orchestrator, in two threads or one after the
\* other, for two prompts; the tool is registered before either begins
NextTwo ==
    \/ /\ pc = "idle" /\ other.pc = "idle"
       /\ Len(regLog) < MaxTwoRegs
       /\ RegisterTool(EmailDef1, "f1")
    \/ \E p \in TwoPrompts \ {other.prompt} : Chat(p)
    \/ \E stop \in {"tool_use", "end_turn"},
          shapes \in ContentShapes(MaxTwoBlocks - emitted - other.emitted) :
          /\ stop = "tool_use" => cycles + other.cycles < MaxTwoCycles
          /\ ModelReturn(stop, shapes)
    \/ \E e \in ClientExceptions : ModelRaise(e)
    \/ LoopSkip
    \/ LoopNotFound
    \/ LoopInvoke
    \/ \E v \in ToolValues : ToolReturn(v)
    \/ \E e \in ToolExceptions : ToolRaise(e)
    \/ LoopEnd
    \/ Switch

SpecTwo == Init /\ [][NextTwo]_vars

\* the Model Client is deterministic: given the same transcript and
\* declarations it answers the same, in this invocation and in the other
ClientDeterministic ==
    \A a \in 1..Len(received) :
        /\ \A b \in 1..Len(received) :
              sent[a] = sent[b] => received[a] = received[b]
        /\ \A b \in 1..Len(other.received) :
              sent[a] = other.sent[b] => received[a] = other.received[b]

\* two capability invocations ended the same way
SameEnd(f, g) ==
    /\ f.kind = g.kind
    /\ f.kind = "returned" => f.value = g.value
    /\ f.kind = "raised" => f.exc = g.exc

\* the capability functions are deterministic: the same function given the
\* same arguments ends the same, in this invocation and in the other
ToolsDeterministic ==
    \A a \in 1..Len(finished) :
        /\ \A b \in 1..Len(finished) :
              (invoked[a].fn = invoked[b].fn /\ invoked[a].input = invoked[b].input)
                  => SameEnd(finished[a], finished[b])
        /\ \A b \in 1..Len(other.finished) :
              (/\ invoked[a].fn = other.invoked[b].fn
               /\ invoked[a].input = other.invoked[b].input)
                  => SameEnd(finished[a], other.finished[b])

\* chat is called, and once it has returned or raised it is called again with
\* the same prompt, against a deterministic Model Client and deterministic
\* capability functions; the tool is registered before the first call
NextTwice ==
    \/ /\ pc = "idle" /\ other.pc = "idle"
       /\ Len(regLog) < MaxTwoRegs
       /\ RegisterTool(EmailDef1, "f1")
    \/ \E p \in Prompts : Chat(p)
    \/ \E stop \in StopReasons, shapes \in ContentShapes(MaxTwiceBlocks - emitted) :
          /\ stop = "tool_use" => cycles < MaxCycles
          /\ ModelReturn(stop, shapes)
          /\ ClientDeterministic'
    \/ \E e \in ClientExceptions : ModelRaise(e) /\ ClientDeterministic'
    \/ LoopSkip
    \/ LoopNotFound
    \/ LoopInvoke
    \/ \E v \in ToolValues : ToolReturn(v) /\ ToolsDeterministic'
    \/ \E e \in ToolExceptions : ToolRaise(e) /\ ToolsDeterministic'
    \/ LoopEnd
    \/ /\ pc \in {"done", "failed"} /\ other.pc = "idle"
       /\ Switch

SpecTwice == Init /\ [][NextTwice]_vars

\* fetch_emails is called once, with any content_keywords, and runs to its end
NextMail ==
    \/ \E kw \in KeywordArgs : FetchEmails(kw)
    \/ AuthOk
    \/ AuthFails
    \/ \E e \in MailExceptions : AuthRaises(e)
    \/ \E e \in MailExceptions : ListRaises(e)
    \/ \E inbox \in Inboxes : ListReturns(inbox)
    \/ \E e \in MailExceptions : GetRaises(e)
    \/ ForMessage
    \/ FetchReturn

SpecMail == Init /\ [][NextMail]_vars

\* the caller constructs the orchestrators, each with any tools argument, and
\* registers tools on them, at most MaxInstRegs times
NextInst ==
    \/ \E x \in Instances : \E arg \in ToolsArgs : Construct(x, arg)
    \/ \E x \in Instances : \E c \in RegisterCalls :
          /\ Len(heap.log) < MaxInstRegs
          /\ RegisterToolOn(x, c[1], c[2])

SpecInst == Init /\ [][NextInst]_vars

\* extract_n_keyframes is called once, for any n_frames and any video
NextVideo ==
    \/ \E n \in 0..MaxNFrames : ExtractKeyframes(n)
    \/ OpenFails
    \/ \E c \in 0..MaxFrameCount : Opened(c)
    \/ ReadOk
    \/ ReadFails
    \/ KeyframesReturn

SpecVideo == Init /\ [][NextVideo]_vars

\* runs whose responses request fetch_emails, more than once in a response and
\* with equal or different arguments; fetch_emails is registered before or not
NextArgs ==
    \/ /\ pc = "idle"
       /\ Len(regLog) < MaxArgsRegs
       /\ RegisterTool(EmailDef1, "f1")
    \/ \E p \in Prompts : Chat(p)
    \/ \E stop \in StopReasons, shapes \in ArgsShapes(MaxArgsBlocks - emitted) :
          /\ stop = "tool_use" => cycles < MaxArgsCycles
          /\ ModelReturn(stop, shapes)
    \/ \E e \in ClientExceptions : ModelRaise(e)
    \/ LoopSkip
    \/ LoopNotFound
    \/ LoopInvoke
    \/ \E v \in ToolValues : ToolReturn(v)
    \/ \E e \in ToolExceptions : ToolRaise(e)
    \/ LoopEnd

SpecArgs == Init /\ [][NextArgs]_vars

\* every Model Client call returns or raises
ClientAnswers(blocks) ==
    \/ \E stop \in StopReasons, shapes \in ContentShapes(blocks - emitted) :
          /\ stop = "tool_use" => cycles < MaxCycles
          /\ ModelReturn(stop, shapes)
    \/ \E e \in ClientExceptions : ModelRaise(e)

\* every capability call returns or raises
ToolAnswers ==
    \/ \E v \in ToolValues : ToolReturn(v)
    \/ \E e \in ToolExceptions : ToolRaise(e)

\* chat's own statements are executed
LoopSteps == LoopSkip \/ LoopNotFound \/ LoopNotCallable \/ LoopInvoke \/ LoopEnd

\* the runs in which the Model Client and the capability functions answer and
\* chat goes on running; the Model Client returns at most MaxCycles tool_use
\* responses, so it ends up returning another one
NextLive == Bounded(MaxSetup, MaxLiveBlocks)

SpecLive ==
    /\ Init /\ [][NextLive]_vars
    /\ WF_vars(ClientAnswers(MaxLiveBlocks))
    /\ WF_vars(ToolAnswers)
    /\ WF_vars(LoopSteps)

----------------------------------------------------------------------------
(* Vocabulary of the properties *)

IsPrefix(a, b) == Len(a) <= Len(b) /\ SubSeq(b, 1, Len(a)) = a

\* the content blocks of a turn; a turn whose content is a str holds none
Blocks(turn) == IF "list" \in DOMAIN turn.content THEN turn.content.list ELSE <<>>

\* the positions <<turn, block>> of a transcript
Positions(msgs) ==
    UNION {{<<t, b>> : b \in 1..Len(Blocks(msgs[t]))} : t \in 1..Len(msgs)}

BlockOf(msgs, p) == Blocks(msgs[p[1]])[p[2]]

\* where the assistant turns of a transcript hold tool_use blocks
RequestsIn(msgs) ==
    {p \in Positions(msgs) :
        msgs[p[1]].role = "assistant" /\ BlockOf(msgs, p).type = "tool_use"}

\* where the user turns of a transcript hold tool_result blocks
ResultsIn(msgs) ==
    {p \in Positions(msgs) :
        msgs[p[1]].role = "user" /\ BlockOf(msgs, p).type = "tool_result"}

\* the tool_result blocks of a transcript that answer invocation id
ResultsFor(msgs, id) ==
    {p \in ResultsIn(msgs) : BlockOf(msgs, p).tool_use_id = id}

\* the tool_use blocks of a response content, in order
ToolUses(content) == SelectSeq(content, LAMBDA b : b.type = "tool_use")

\* the Model Client calls that returned a tool_use response
ToolUseCalls ==
    {k \in 1..Len(received) :
        received[k].kind = "returned" /\ received[k].value.stop_reason = "tool_use"}

----------------------------------------------------------------------------
(* C1 *)

\* C1: every Model Client call but the last one made returned a tool_use
\* response (no call follows another response); when chat has returned, after
\* N tool_use responses and one other response, it made exactly N + 1 calls and
\* returned the last response as the Model Client produced it, which is not a
\* tool_use response; and chat returns as soon as such a response arrives.
C1_FinalResponseReturned ==
    /\ \A k \in 1..Len(received) : k < calls => k \in ToolUseCalls
    /\ pc = "done" =>
          /\ Len(received) = calls
          /\ calls = Cardinality(ToolUseCalls) + 1
          /\ calls \notin ToolUseCalls
          /\ outcome = [kind |-> "returned", value |-> received[calls].value]
    /\ outcome.kind = "returned" =>
          pc = "done" /\ outcome.value.stop_reason # "tool_use"
    /\ (Len(received) > 0 /\ Len(received) \notin ToolUseCalls) =>
          pc \in {"done", "failed"}

\* chat has returned after two tool_use responses and a final one
C1_Witness ==
    /\ pc = "done"
    /\ Cardinality(ToolUseCalls) = 2
    /\ calls = 3

----------------------------------------------------------------------------
(* C2 *)

\* C2: between two consecutive Model Client calls, when the response to the
\* first holds k >= 1 tool_use blocks, the transcript has grown by exactly two
\* turns: one assistant turn holding the response content, then one user turn
\* holding the k tool_result blocks.
C2_TwoTurnsPerCycle ==
    \A n \in 1..(Len(sent) - 1) :
        LET old == sent[n].messages
            new == sent[n + 1].messages
            content == received[n].value.content
            k == Len(ToolUses(content))
        IN  k >= 1 =>
              /\ Len(new) = Len(old) + 2
              /\ new[Len(old) + 1] = [role |-> "assistant", content |-> [list |-> content]]
              /\ new[Len(old) + 2].role = "user"
              /\ Len(Blocks(new[Len(old) + 2])) = k
              /\ \A b \in 1..k :
                    /\ Blocks(new[Len(old) + 2])[b].type = "tool_result"
                    /\ Blocks(new[Len(old) + 2])[b].tool_use_id = ToolUses(content)[b].id

----------------------------------------------------------------------------
(* C3 *)

\* the transcript given to the latest Model Client call; every call is the
\* latest one in the state it is made in
LastSent == sent[Len(sent)].messages

\* C3: in the transcript given to a Model Client call, each tool_use block of an
\* assistant turn is answered by exactly one tool_result block carrying its
\* invocation id.
C3_OneOutcomePerRequest ==
    Len(sent) >= 1 =>
        \A p \in RequestsIn(LastSent) :
            Cardinality(ResultsFor(LastSent, BlockOf(LastSent, p).id)) = 1

\* a call after the first whose transcript holds a response of two requests
C3_Witness ==
    \E n \in 2..Len(sent) :
        \E p \in RequestsIn(sent[n].messages) :
            /\ p[2] = 2
            /\ BlockOf(sent[n].messages, <<p[1], 1>>).type = "tool_use"

----------------------------------------------------------------------------
(* C4 *)

\* the block carries "is_error": True
IsError(block) == "is_error" \in DOMAIN block /\ block.is_error

\* the text holds the pieces of part, contiguously
HasInfix(text, part) ==
    \E k \in 0..(Len(text) - Len(part)) : SubSeq(text, k + 1, k + Len(part)) = part

\* chat raises nothing but what a Model Client call raised
OnlyClientErrorsEscape ==
    /\ outcome.kind = "raised" => outcome.exc \in ClientExceptions
    /\ pc = "failed" => received[Len(received)].kind = "raised"

\* the requests of the response to call n - 1 are all answered at call n
CycleAnswered(n) ==
    \A k \in 1..Len(ToolUses(received[n - 1].value.content)) :
        ResultsFor(sent[n].messages,
                   ToolUses(received[n - 1].value.content)[k].id) # {}

\* C4: a request for a name the registry does not hold gets an outcome flagged
\* is_error whose text names the tool, no capability function is invoked for
\* it, chat raises nothing for it, and the next Model Client call is made with
\* that outcome in the transcript.
C4_UnregisteredToolIsErrorOutcome ==
    /\ \A p \in RequestsIn(messages) :
          LET b == BlockOf(messages, p) IN
          b.name \notin DOMAIN registry =>
            /\ \A q \in ResultsFor(messages, b.id) :
                  /\ IsError(BlockOf(messages, q))
                  /\ HasInfix(BlockOf(messages, q).content, <<b.name>>)
            /\ \A k \in 1..Len(invoked) : invoked[k].id # b.id
    /\ OnlyClientErrorsEscape
    /\ Len(sent) >= 2 => CycleAnswered(Len(sent))

\* the Model Client was called again after a request for get_flight_status,
\* which nobody registered
C4_Witness ==
    /\ Len(sent) >= 2
    /\ \E p \in RequestsIn(sent[2].messages) :
          /\ BlockOf(sent[2].messages, p).name = "get_flight_status"
          /\ ResultsFor(sent[2].messages, BlockOf(sent[2].messages, p).id) # {}

----------------------------------------------------------------------------
(* C5 *)

----------------------------------------------------------------------------
(* C6 *)

Ids(blocks) == [k \in 1..Len(blocks) |-> blocks[k].id]

\* the invocation ids the Model Client has requested, in the order emitted
RECURSIVE RequestIds(_)
RequestIds(n) ==
    IF n = 0 THEN <<>>
    ELSE RequestIds(n - 1) \o
         (IF n \in ToolUseCalls THEN Ids(ToolUses(received[n].value.content))
          ELSE <<>>)

\* where the Model Client requested invocation id
RequestPos(id) == CHOOSE k \in 1..Len(RequestIds(Len(received))) :
                      RequestIds(Len(received))[k] = id

\* the tool_use_ids of the tool_result blocks of a transcript, in order
RECURSIVE ResultIds(_)
ResultIds(msgs) ==
    IF msgs = <<>> THEN <<>>
    ELSE LET last == msgs[Len(msgs)]
             rs == SelectSeq(Blocks(last), LAMBDA b : b.type = "tool_result")
         IN  ResultIds(SubSeq(msgs, 1, Len(msgs) - 1)) \o
             (IF last.role = "user"
              THEN [k \in 1..Len(rs) |-> rs[k].tool_use_id] ELSE <<>>)

\* C6: the tool_result blocks of the transcript follow the order of the
\* requests in the responses (at a Model Client call they answer all requests
\* so far, in order), and the capability functions are invoked in that order.
C6_DispatchInRequestOrder ==
    /\ IsPrefix(ResultIds(messages), RequestIds(Len(received)))
    /\ pc = "wait" => ResultIds(messages) = RequestIds(Len(received))
    /\ \A a, b \in 1..Len(invoked) :
          a < b => RequestPos(invoked[a].id) < RequestPos(invoked[b].id)

\* two requests of one response were both invoked and answered
C6_Witness ==
    /\ Len(invoked) = 2
    /\ invoked[1].id = <<1, 1>> /\ invoked[2].id = <<1, 2>>
    /\ ResultIds(messages) = << <<1, 1>>, <<1, 2>> >>
    /\ pc = "wait"

----------------------------------------------------------------------------
(* C7 *)

\* C7 as claimed: a Model Client failure leaves chat as a ModelBoundaryError.
C7_RaisesModelBoundaryError ==
    pc = "failed" =>
        /\ outcome.kind = "raised"
        /\ outcome.exc.cls = "ModelBoundaryError"

\* C7, amended: when a Model Client call raises, chat ends by raising that very
\* exception; the transcript is the one that call was given (nothing is
\* converted into a tool outcome), it was the last Model Client call, and every
\* capability invocation of the run belongs to an earlier response.
C7_ClientErrorPropagatesUnchanged ==
    /\ pc = "failed" =>
          /\ Len(received) = calls
          /\ received[calls].kind = "raised"
          /\ outcome = [kind |-> "raised", exc |-> received[calls].exc]
          /\ messages = sent[calls].messages
          /\ fn = NoFn
    /\ \A k \in 1..Len(received) :
          received[k].kind = "raised" =>
            /\ pc = "failed"
            /\ k = calls
            /\ \A j \in 1..Len(invoked) : invoked[j].id[1] < k
            /\ ResultsIn(messages) = ResultsIn(sent[k].messages)

\* the second Model Client call of a run raised
C7_Witness ==
    /\ pc = "failed"
    /\ calls = 2
    /\ Len(invoked) = 1

----------------------------------------------------------------------------
(* C8 *)

\* the register_tool calls that succeeded
OkRegs == {k \in 1..Len(regLog) : regLog[k].exc = NoExc}

\* the last successful registration of name
LastReg(name) ==
    CHOOSE k \in OkRegs :
        /\ regLog[k].tool_def.name = name
        /\ \A j \in OkRegs : regLog[j].tool_def.name = name => j <= k

\* C8: the registry binds each registered name to the function of the last
\* successful registration of that name and to nothing else, every dispatch
\* invokes that function, and the advertised list holds the declaration of
\* every successful registration, in registration order.
C8_LastRegistrationWins ==
    /\ DOMAIN registry = {regLog[k].tool_def.name : k \in OkRegs}
    /\ \A n \in DOMAIN registry : registry[n] = regLog[LastReg(n)].python_fn
    /\ LET ok == SelectSeq(regLog, LAMBDA c : c.exc = NoExc) IN
          tools = [k \in 1..Len(ok) |-> ok[k].tool_def]
    /\ \A k \in 1..Len(invoked) :
          invoked[k].fn = regLog[LastReg(invoked[k].name)].python_fn

\* fetch_emails was registered with f1, then with f2, and was then dispatched
C8_Witness ==
    /\ Len(regLog) = 2
    /\ regLog[1] = [tool_def |-> EmailDef1, python_fn |-> "f1", exc |-> NoExc]
    /\ regLog[2] = [tool_def |-> EmailDef2, python_fn |-> "f2", exc |-> NoExc]
    /\ tools = <<EmailDef1, EmailDef2>>
    /\ Len(invoked) >= 1
    /\ invoked[1].fn = "f2"

----------------------------------------------------------------------------
(* C9 *)

\* C9 as claimed: register_tool fails with InvalidToolError for a declaration
\* without a name and for a function that is not callable.
C9_RaisesInvalidToolError ==
    \A k \in 1..Len(regLog) :
        ("name" \notin DOMAIN regLog[k].tool_def \/ ~Callable(regLog[k].python_fn))
            => regLog[k].exc.cls = "InvalidToolError"

\* C9, amended: register_tool raises KeyError('name') when the declaration has
\* no name, whatever the function; it raises AssertionError when the declaration
\* has a name, the function is not callable and assert statements are enabled;
\* and it raises in no other case.
C9_RegisterFailsOnMisuse ==
    \A k \in 1..Len(regLog) :
        LET c == regLog[k]
            named == "name" \in DOMAIN c.tool_def
        IN  /\ ~named => c.exc = KeyError("name")
            /\ (named /\ ~Callable(c.python_fn) /\ ~optimize) =>
                  c.exc = AssertionError("python_fn must be a callable")
            /\ c.exc # NoExc => (~named \/ (~Callable(c.python_fn) /\ ~optimize))

\* a declaration without a name was refused with a function that is not
\* callable, and a named declaration was refused for such a function
C9_Witness ==
    /\ Len(regLog) = 2
    /\ regLog[1].tool_def = Nameless /\ regLog[1].python_fn = NotCallable
    /\ regLog[1].exc.cls = "KeyError"
    /\ regLog[2].tool_def = EmailDef1 /\ regLog[2].python_fn = NotCallable
    /\ regLog[2].exc.cls = "AssertionError"

----------------------------------------------------------------------------
(* C10 *)

\* C10: the transcript given to a Model Client call extends the transcript
\* given to the call before it, turn for turn, and the transcript in the making
\* extends the one last given.
C10_TranscriptAppendOnly ==
    /\ \A n \in 1..(Len(sent) - 1) :
          IsPrefix(sent[n].messages, sent[n + 1].messages)
    /\ Len(sent) > 0 => IsPrefix(sent[Len(sent)].messages, messages)

\* three Model Client calls, each given more turns than the one before
C10_Witness ==
    /\ Len(sent) = 3
    /\ Len(sent[1].messages) < Len(sent[2].messages)
    /\ Len(sent[2].messages) < Len(sent[3].messages)

----------------------------------------------------------------------------
(* C11 *)

\* C11: when every Model Client call and every capability call answers and the
\* Model Client ends up returning a response that is not tool_use, a chat run
\* that has begun ends; after each tool_use response chat calls the Model
\* Client again unless that call never comes to be made because the run has
\* not got there yet; and chat returns only on a response that is not tool_use.
C11_ChatTerminates ==
    /\ (pc # "idle") ~> (pc \in {"done", "failed"})
    /\ \A n \in 1..MaxCycles :
          (Len(received) = n /\ n \in ToolUseCalls) ~> (calls = n + 1)
    /\ [](pc = "done" =>
            /\ received[Len(received)].kind = "returned"
            /\ received[Len(received)].value.stop_reason # "tool_use")

\* a run has ended normally after two tool_use responses and a capability
\* function that raised
C11_Witness ==
    /\ pc = "done"
    /\ calls = 3
    /\ Len(finished) = 1
    /\ finished[1].kind = "raised"

----------------------------------------------------------------------------
(* C12 *)

\* C12: chat enforces a cap on the tool-dispatch cycles: for a cap below the
\* number of tool_use responses the Model Client is ready to return, once the
\* Model Client has returned more tool_use responses than the cap the run has
\* ended by raising LoopBudgetExceededError.
C12_CycleCapEnforced ==
    \E cap \in 1..(MaxCycles - 1) :
        cycles > cap =>
            /\ pc = "failed"
            /\ outcome.kind = "raised"
            /\ outcome.exc.cls = "LoopBudgetExceededError"

----------------------------------------------------------------------------
(* C13 *)

\* C13: a capability function that returned value v is answered by exactly one
\* tool_result block, which carries the invocation id of the request, has the
\* text of v as content (for a list: the repr of its elements between
\* brackets, not the list) and is not flagged is_error.
C13_SuccessOutcomeIsCoercedText ==
    \A k \in 1..Len(finished) :
        finished[k].kind = "returned" =>
            /\ invoked[k].id = finished[k].id
            /\ Cardinality(ResultsFor(messages, finished[k].id)) = 1
            /\ \A q \in ResultsFor(messages, finished[k].id) :
                  LET b == BlockOf(messages, q) IN
                  /\ b.tool_use_id = invoked[k].id
                  /\ b.content = Str(finished[k].value)
                  /\ finished[k].value.t = "list" => b.content # finished[k].value.v
                  /\ ~IsError(b)
                  /\ "is_error" \notin DOMAIN b

\* fetch_emails returned a list of two emails and the outcome of the request
\* holds the text of that list
C13_Witness ==
    /\ Len(finished) >= 1
    /\ finished[1] = [id |-> <<1, 1>>, kind |-> "returned",
                      value |-> [t |-> "list", v |-> <<"email 1", "email 2">>]]
    /\ invoked[1].name = "fetch_emails"
    /\ \E q \in ResultsFor(messages, <<1, 1>>) :
          BlockOf(messages, q).content =
              <<"[", "'", "email 1", "'", ", ", "'", "email 2", "'", "]">>

----------------------------------------------------------------------------
(* C20 *)

\* the block of the Model Client's responses that invocation id names
Requested(id) == received[id[1]].value.content[id[2]]

\* C20: every assistant turn of the transcript holds the whole content of the
\* response whose request the following user turn answers, block for block,
\* text blocks included; and every capability invocation and every
\* tool_result block is for a block of type tool_use of a tool_use response.
C20_RawContentOnlyRequestsDispatched ==
    /\ \A t \in 1..Len(messages) :
          messages[t].role = "assistant" =>
            /\ t < Len(messages)
            /\ messages[t + 1].role = "user"
            /\ Len(Blocks(messages[t + 1])) = 1
            /\ Blocks(messages[t]) =
                  received[Blocks(messages[t + 1])[1].tool_use_id[1]].value.content
    /\ \A q \in ResultsIn(messages) :
          /\ BlockOf(messages, q).tool_use_id[1] \in ToolUseCalls
          /\ Requested(BlockOf(messages, q).tool_use_id).type = "tool_use"
    /\ \A k \in 1..Len(invoked) :
          /\ invoked[k].id[1] \in ToolUseCalls
          /\ Requested(invoked[k].id).type = "tool_use"
    /\ Cardinality(ResultsIn(messages)) <= Len(RequestIds(Len(received)))

\* a response of a text block and a request was dispatched: the assistant turn
\* holds both blocks, one capability function was invoked and one outcome given
C20_Witness ==
    /\ Len(messages) = 3
    /\ Len(Blocks(messages[2])) = 2
    /\ Blocks(messages[2])[1].type = "text"
    /\ Blocks(messages[2])[2].type = "tool_use"
    /\ Len(invoked) = 1
    /\ Cardinality(ResultsIn(messages)) = 1
    /\ pc = "wait"

----------------------------------------------------------------------------
(* C18 *)

\* the declarations of the register_tool calls that have succeeded, in order
Declared ==
    LET ok == SelectSeq(regLog, LAMBDA c : c.exc = NoExc)
    IN  [k \in 1..Len(ok) |-> ok[k].tool_def]

\* C18: a step that calls the Model Client gives it the whole transcript
\* (the prompt turn, then two turns for every request of the responses so
\* far) and the declarations of every registration that has succeeded by
\* then, the ones made since chat began included.
C18_WholeTranscriptCurrentTools ==
    [][Len(sent') = Len(sent) + 1 =>
          LET given == sent'[Len(sent')] IN
          /\ given.messages = messages'
          /\ given.messages[1].role = "user"
          /\ given.messages[1].content.str \in Prompts
          /\ Len(given.messages) = 1 + 2 * Len(RequestIds(Len(received)))
          /\ \A n \in 1..Len(sent) : IsPrefix(sent[n].messages, given.messages)
          /\ given.tools = Declared]_vars

\* the first call of a run advertised nothing and the second one, after a
\* request was answered, advertised a declaration registered in between
C18_Witness ==
    /\ Len(sent) = 2
    /\ sent[1].tools = <<>>
    /\ sent[2].tools = <<EmailDef1>>
    /\ Len(sent[2].messages) = 3

----------------------------------------------------------------------------
(* C19 *)

\* the successful registrations of name so far
RegsOf(name) == {k \in OkRegs : regLog[k].tool_def.name = name}

\* C19: a step that invokes a capability function for a request invokes the
\* function of the last registration of the requested name that has succeeded
\* by then; a step that answers a request for a name no registration has
\* bound by then invokes nothing and appends the not-found error outcome.
C19_ResolvedAtDispatch ==
    [][/\ Len(invoked') = Len(invoked) + 1 =>
             LET call == invoked'[Len(invoked')] IN
             /\ call.name = response.content[i].name
             /\ RegsOf(call.name) # {}
             /\ \E k \in RegsOf(call.name) :
                   /\ \A j \in RegsOf(call.name) : j <= k
                   /\ call.fn = regLog[k].python_fn
       /\ (/\ pc = "loop"
           /\ Len(messages') > Len(messages)
           /\ RegsOf(response.content[i].name) = {}) =>
             LET b == Blocks(messages'[Len(messages')])[1] IN
             /\ invoked' = invoked
             /\ b.tool_use_id = response.content[i].id
             /\ IsError(b)
             /\ b.content = <<"No local implementation found for tool '",
                              response.content[i].name, "'">>]_vars

\* a request for fetch_emails was answered not-found, fetch_emails was then
\* registered, and a later request of the same run was dispatched to it
C19_Witness ==
    /\ Len(invoked) >= 1
    /\ invoked[1].name = "fetch_emails"
    /\ invoked[1].id = <<1, 2>>
    /\ \E q \in ResultsFor(messages, <<1, 1>>) :
          /\ IsError(BlockOf(messages, q))
          /\ HasInfix(BlockOf(messages, q).content, <<"fetch_emails">>)

\* fetch_emails was dispatched to f1, registered again with f2 while the run
\* went on, and then dispatched to f2
C19_WitnessReplaced ==
    /\ Len(invoked) = 2
    /\ invoked[1].name = "fetch_emails" /\ invoked[1].fn = "f1"
    /\ invoked[2].name = "fetch_emails" /\ invoked[2].fn = "f2"

----------------------------------------------------------------------------
(* C15 *)

\* the tool_use blocks of the tool_use responses among rcv, in the order emitted
RECURSIVE RequestBlocks(_)
RequestBlocks(rcv) ==
    IF rcv = <<>> THEN <<>>
    ELSE LET last == rcv[Len(rcv)] IN
         RequestBlocks(SubSeq(rcv, 1, Len(rcv) - 1)) \o
         (IF last.kind = "returned" /\ last.value.stop_reason = "tool_use"
          THEN ToolUses(last.value.content) ELSE <<>>)

\* the transcript of invocation l is its prompt turn followed, for the first n
\* requests of the responses it received, by the assistant turn of the
\* response and the user turn of the one outcome of the request, and by
\* nothing else
OwnTranscript(l) ==
    l.pc # "idle" =>
        LET reqs == RequestBlocks(l.received)
            n == (Len(l.messages) - 1) \div 2
        IN  /\ Len(l.messages) = 1 + 2 * n
            /\ l.messages[1] = [role |-> "user", content |-> [str |-> l.prompt]]
            /\ n <= Len(reqs)
            /\ l.pc \in {"wait", "done", "failed"} => n = Len(reqs)
            /\ \A k \in 1..n :
                  /\ l.messages[2 * k] =
                        [role |-> "assistant",
                         content |-> [list |-> l.received[reqs[k].id[1]].value.content]]
                  /\ l.messages[2 * k + 1].role = "user"
                  /\ Len(Blocks(l.messages[2 * k + 1])) = 1
                  /\ Blocks(l.messages[2 * k + 1])[1].type = "tool_result"
                  /\ Blocks(l.messages[2 * k + 1])[1].tool_use_id = reqs[k].id

\* C15: a step that begins a chat invocation makes its transcript the one user
\* turn of its prompt; and the transcript of each of the two invocations on the
\* orchestrator, the running one and the other, holds after that turn only the
\* turns of its own responses and outcomes.
C15_TranscriptOwnedByInvocation ==
    /\ [][(pc = "idle" /\ pc' # "idle" /\ other' = other) =>
             messages' = <<[role |-> "user", content |-> [str |-> prompt']]>>]_vars
    /\ [](OwnTranscript(Locals) /\ OwnTranscript(other))

\* two invocations for two prompts are both waiting for the Model Client, each
\* with one request answered in its transcript
C15_Witness ==
    /\ pc = "wait" /\ other.pc = "wait"
    /\ prompt # other.prompt
    /\ Len(messages) = 3 /\ Len(other.messages) = 3

\* a second invocation ran to its end after the first one had ended with a
\* request answered in its transcript
C15_WitnessSequential ==
    /\ pc = "done" /\ other.pc = "done"
    /\ other.calls = 2 /\ calls = 2
    /\ Len(other.received) = 2 /\ Len(received) = 2
    /\ prompt # other.prompt

----------------------------------------------------------------------------
(* C14 *)

\* C14: while chat runs a second time with the prompt of the first run, which
\* has ended, every Model Client call is given what the call of the same number
\* was given in the first run and is answered the same; and the second run ends
\* as the first did, with the same response or exception and the same
\* transcript, turn for turn.
C14_SecondRunRepeatsFirst ==
    (other.pc \in {"done", "failed"} /\ pc # "idle" /\ prompt = other.prompt) =>
        /\ \A k \in 1..Len(sent) :
              k <= Len(other.sent) /\ sent[k] = other.sent[k]
        /\ \A k \in 1..Len(received) : received[k] = other.received[k]
        /\ IsPrefix(messages, other.messages)
        /\ pc \in {"done", "failed"} =>
              /\ pc = other.pc
              /\ outcome = other.outcome
              /\ messages = other.messages
              /\ [t \in 1..Len(messages) |-> messages[t].role] =
                    [t \in 1..Len(other.messages) |-> other.messages[t].role]

\* both runs have returned, each after one request dispatched to the tool
C14_Witness ==
    /\ pc = "done" /\ other.pc = "done"
    /\ prompt = other.prompt
    /\ Len(other.invoked) = 1 /\ Len(invoked) = 1
    /\ Len(messages) = 3
    /\ outcome.value.stop_reason = "end_turn"

----------------------------------------------------------------------------
(* C16 *)

\* C16: fetch_emails never raises: when authentication or a Gmail API call
\* fails, it returns the empty list.
C16_ReturnsEmptyListOnError ==
    /\ mail.pc # "raised"
    /\ mail.exc = NoExc

----------------------------------------------------------------------------
(* C17 *)

\* C17: when the video opens and reports at least one frame,
\* extract_n_keyframes returns exactly n_frames saved frame paths, also when
\* reading some of the selected frames fails.
C17_ExactlyNFrames ==
    video.pc = "returned" => Len(video.saved_frames) = video.n_frames

----------------------------------------------------------------------------
(* C21 *)

\* C21: every capability invocation is for one request, with the name and the
\* arguments of that request, and no request is invoked twice; when the Model
\* Client is called again, every request of the responses so far has exactly
\* one outcome with its own invocation id and, its name being registered,
\* exactly one invocation, however many requests of a response name the same
\* tool.
C21_EachRequestDispatched ==
    /\ \A k \in 1..Len(invoked) :
          /\ Requested(invoked[k].id).type = "tool_use"
          /\ Requested(invoked[k].id).name = invoked[k].name
          /\ Requested(invoked[k].id).input = invoked[k].input
          /\ \A j \in 1..Len(invoked) : invoked[j].id = invoked[k].id => j = k
    /\ pc = "wait" =>
          LET reqs == RequestBlocks(received) IN
          \A n \in 1..Len(reqs) :
              /\ Cardinality(ResultsFor(messages, reqs[n].id)) = 1
              /\ reqs[n].name \in DOMAIN registry =>
                    Cardinality({k \in 1..Len(invoked) :
                                    invoked[k].id = reqs[n].id}) = 1

\* one response requested fetch_emails twice with different arguments: the
\* function was invoked twice, once with each, and both requests were answered
C21_Witness ==
    /\ pc = "wait"
    /\ Len(invoked) = 2
    /\ invoked[1].id = <<1, 1>> /\ invoked[2].id = <<1, 2>>
    /\ invoked[1].name = invoked[2].name
    /\ invoked[1].input # invoked[2].input
    /\ Cardinality(ResultsFor(messages, <<1, 1>>)) = 1
    /\ Cardinality(ResultsFor(messages, <<1, 2>>)) = 1

\* one response requested fetch_emails twice with the same arguments and the
\* function was invoked twice
C21_WitnessEqualArguments ==
    /\ pc = "wait"
    /\ Len(invoked) = 2
    /\ invoked[1].id = <<1, 1>> /\ invoked[2].id = <<1, 2>>
    /\ invoked[1].input = invoked[2].input

----------------------------------------------------------------------------
(* C22 *)

\* the Model Client calls and the capability calls that have begun and not
\* ended
ClientInFlight == Len(sent) - Len(received)
ToolsInFlight == Len(invoked) - Len(finished)

\* C22: at most one call, of the Model Client or of a capability function, is
\* in flight; a step that calls the Model Client is taken with no call in
\* flight and gives it the outcome of every request of the responses so far;
\* and a step that invokes a capability function is taken with no call in
\* flight and the outcome of the invocation before it in the transcript.
C22_OneCallInFlight ==
    /\ [](/\ ClientInFlight \in {0, 1}
          /\ ToolsInFlight \in {0, 1}
          /\ ClientInFlight + ToolsInFlight <= 1)
    /\ [][Len(sent') > Len(sent) =>
             /\ ClientInFlight = 0
             /\ ToolsInFlight = 0
             /\ ResultIds(messages') = RequestIds(Len(received))]_vars
    /\ [][Len(invoked') > Len(invoked) =>
             /\ ClientInFlight = 0
             /\ ToolsInFlight = 0
             /\ Len(finished) >= 1 =>
                   ResultsFor(messages, finished[Len(finished)].id) # {}]_vars

\* after a response of two requests, both invoked one after the other, the
\* Model Client has been called again
C22_Witness ==
    /\ Len(sent) = 2
    /\ Len(received) = 1
    /\ Len(invoked) = 2
    /\ Len(finished) = 2
    /\ invoked[2].id = <<1, 2>>

----------------------------------------------------------------------------
(* C23 *)

\* C23: the transcript given to a Model Client call has an odd number of
\* turns, user turns at the odd places, the first and the last among them, and
\* assistant turns at the even places.
C23_RolesAlternate ==
    Len(sent) >= 1 =>
        /\ Len(LastSent) % 2 = 1
        /\ LastSent[1].role = "user"
        /\ LastSent[Len(LastSent)].role = "user"
        /\ \A t \in 1..Len(LastSent) :
              LastSent[t].role = IF t % 2 = 1 THEN "user" ELSE "assistant"
        /\ \A t \in 1..(Len(LastSent) - 1) : LastSent[t].role # LastSent[t + 1].role

\* the second call of a run, after a response of two requests, was given a
\* transcript of five turns
C23_Witness ==
    /\ Len(sent) = 2
    /\ Len(ToolUses(received[1].value.content)) = 2
    /\ Len(sent[2].messages) = 5

----------------------------------------------------------------------------
(* C24 *)

\* C24: the transcript given to a Model Client call is longer than the one
\* given to the call before it, whatever the tool_use response in between
\* holds; no two consecutive calls are given the same transcript.
C24_TranscriptStrictlyGrows ==
    \A n \in 1..(Len(sent) - 1) :
        /\ Len(sent[n].messages) < Len(sent[n + 1].messages)
        /\ sent[n].messages # sent[n + 1].messages

----------------------------------------------------------------------------
(* C25 *)

\* C25: a register_tool call that raises leaves the advertised list and the
\* registry as they were; every Model Client call of a later chat is given the
\* declarations of the calls that succeeded and no other, and a capability
\* function is invoked only for a name, and as the function, of a call that
\* succeeded.
C25_FailedRegistrationLeavesNoTrace ==
    /\ [][(/\ Len(regLog') = Len(regLog) + 1
            /\ regLog'[Len(regLog')].exc # NoExc) =>
                tools' = tools /\ registry' = registry]_vars
    /\ [](/\ \A n \in 1..Len(sent) : sent[n].tools = Declared
          /\ \A k \in 1..Len(invoked) :
                \E j \in RegsOf(invoked[k].name) :
                    regLog[j].python_fn = invoked[k].fn
          /\ pc = "wait" =>
                \A p \in RequestsIn(messages) :
                    RegsOf(BlockOf(messages, p).name) = {} =>
                        \A q \in ResultsFor(messages, BlockOf(messages, p).id) :
                            IsError(BlockOf(messages, q)))

\* registering fetch_emails with an object that is not callable was refused,
\* and the chat after it advertised nothing and answered a request for
\* fetch_emails as not found
C25_Witness ==
    /\ Len(regLog) = 1
    /\ regLog[1].tool_def = EmailDef1
    /\ regLog[1].exc.cls = "AssertionError"
    /\ Len(sent) = 2
    /\ sent[1].tools = <<>> /\ sent[2].tools = <<>>
    /\ \E q \in ResultsFor(messages, <<1, 1>>) :
          /\ IsError(BlockOf(messages, q))
          /\ HasInfix(BlockOf(messages, q).content, <<"fetch_emails">>)

----------------------------------------------------------------------------
(* C26 *)

\* the advertised declaration list of instance x: the value of the list object
\* x.tools refers to
ToolsOf(h, x) == h.lists[h.obj[x].tools]

\* C26: a register_tool call on one instance changes neither the advertised
\* declaration list nor the registry of another instance, however the two were
\* constructed.
C26_RegisterLeavesOtherInstance ==
    [][\A x \in Instances : \A y \in Instances \ {x} :
          (/\ heap.obj[x].made /\ heap.obj[y].made
           /\ Len(heap'.log) = Len(heap.log) + 1
           /\ heap'.log[Len(heap'.log)].self = x) =>
              /\ ToolsOf(heap', y) = ToolsOf(heap, y)
              /\ heap'.obj[y].registry = heap.obj[y].registry]_vars

\* the same holds of two instances that were not both constructed with the
\* same non-empty list of the caller
C26_RegisterLeavesUnaliasedInstance ==
    [][\A x \in Instances : \A y \in Instances \ {x} :
          (/\ heap.obj[x].made /\ heap.obj[y].made
           /\ heap.obj[x].tools # heap.obj[y].tools
           /\ Len(heap'.log) = Len(heap.log) + 1
           /\ heap'.log[Len(heap'.log)].self = x) =>
              /\ ToolsOf(heap', y) = ToolsOf(heap, y)
              /\ heap'.obj[y].registry = heap.obj[y].registry]_vars

\* the registry of an instance is never changed by a call on another one
C26_RegistryIsOwn ==
    [][\A x \in Instances : \A y \in Instances \ {x} :
          (/\ heap.obj[y].made
           /\ Len(heap'.log) = Len(heap.log) + 1
           /\ heap'.log[Len(heap'.log)].self = x) =>
              heap'.obj[y].registry = heap.obj[y].registry]_vars

----------------------------------------------------------------------------
(* C27 *)

\* the listed message at place k is to be included: keywords were given, and
\* one of them, lowercased, is a substring of the subject followed by the
\* lowercased body
Included(k) ==
    /\ ~mail.content_keywords.none
    /\ Len(mail.content_keywords.list) > 0
    /\ \E j \in 1..Len(mail.content_keywords.list) :
          In(Lower(mail.content_keywords.list[j]),
             mail.messages[k].subject \o Lower(mail.messages[k].body))

C27_WitnessSubjectCase ==
    /\ mail.pc = "returned"
    /\ mail.content_keywords.list = << <<"A">> >>
    /\ Len(mail.messages) = 2
    /\ mail.messages[1].subject = <<"A">>
    /\ mail.messages[2].subject = <<"a">>
    /\ mail.fetched_emails = <<2>>

\* with content_keywords omitted, two messages were listed and none returned
C27_WitnessNoKeywords ==
    /\ mail.pc = "returned"
    /\ mail.content_keywords.none
    /\ Len(mail.messages) = 2
    /\ mail.fetched_emails = <<>>

====
